---- MODULE Spec2Model ----
(***************************************************************************)
(* Model of skills/threat-intel-aggregator/scripts/fetch_threat_intel.py:  *)
(* the summary formatter format_threat_summary and the entry point main.   *)
(*                                                                         *)
(* Text is a sequence of code points, one TLA+ string per code point       *)
(* (code points outside ASCII are written "U+XXXX"), so that slicing,      *)
(* concatenation and substring search behave as they do on Python str.     *)
(* A Python value is a record [t, s, n]: t is its type, s the characters   *)
(* of a str (or the items of a list), n the value of an int.  A dict is a  *)
(* function from the keys it holds to values.                              *)
(***************************************************************************)
EXTENDS Integers, Sequences, FiniteSets

VARIABLES
  threats,   \* the threats argument: a sequence of dicts
  cves,      \* the cves argument: a list of dicts, or None
  date_str,  \* the date_str argument: a str, or None when it is not given
  now,       \* the wall clock that datetime.now() reads, in days since ClockStart
  pc,        \* "idle" / "returned" for a caller of the formatter, "start" / "exited" for the script
  result,    \* what the last call returned: [exc, out], exc = "" when it returned out
  calls,     \* for each call made so far, the clock it read and what it returned
  argv,      \* sys.argv of a run of the script
  stdout,    \* what the run printed
  status     \* the exit status of the run

vars == <<threats, cves, date_str, now, pc, result, calls, argv, stdout, status>>

(***************************************************************************)
(* Bounds of the model and constants of the program.                       *)
(***************************************************************************)
MaxThreats == 6
MaxCves == 6
MaxTicks == 1
MaxCalls == 2
MaxArgs == 2

ThreatLimit == 5
CveLimit == 5
DescLimit == 80

(***************************************************************************)
(* Python values.                                                          *)
(***************************************************************************)
PyNone == [t |-> "none", s |-> <<>>, n |-> 0]
PyStr(chars) == [t |-> "str", s |-> chars, n |-> 0]
PyInt(k) == [t |-> "int", s |-> <<>>, n |-> k]
PyList(items) == [t |-> "list", s |-> items, n |-> 0]
EmptyDict == [k \in {} |-> PyNone]

Min(a, b) == IF a < b THEN a ELSE b

Digit(k) == <<"0","1","2","3","4","5","6","7","8","9">>[k + 1]

RECURSIVE NatToStr(_)
NatToStr(k) == IF k < 10 THEN <<Digit(k)>> ELSE NatToStr(k \div 10) \o <<Digit(k % 10)>>

\* str(int)
IntToStr(k) == IF k < 0 THEN <<"-">> \o NatToStr(0 - k) ELSE NatToStr(k)

\* bool(v), as `if v:` and `not v` take it
Truthy(v) ==
  CASE v.t = "str" -> v.s # <<>>
    [] v.t = "list" -> v.s # <<>>
    [] v.t = "int" -> v.n # 0
    [] OTHER -> FALSE

\* the text an f-string puts for {v}
Format(v) ==
  CASE v.t = "str" -> v.s
    [] v.t = "int" -> IntToStr(v.n)
    [] OTHER -> <<"N","o","n","e">>

\* mutant: dict.get(key), the default forgotten
get_NoDefault(d, key, default) == IF key \in DOMAIN d THEN d[key] ELSE PyNone

\* dict.get(key, default)
get(d, key, default) == IF key \in DOMAIN d THEN d[key] ELSE default

\* seq[:k]
Take(seq, k) == SubSeq(seq, 1, Min(k, Len(seq)))

Ok(text) == [exc |-> "", out |-> text]
Raise(kind) == [exc |-> kind, out |-> <<>>]

(***************************************************************************)
(* datetime.now().strftime("%Y-%m-%d").  The clock is a count of days      *)
(* since ClockStart.                                                       *)
(***************************************************************************)
ClockStart == [year |-> 2025, month |-> 12, day |-> 31]

IsLeap(y) == (y % 4 = 0 /\ y % 100 # 0) \/ y % 400 = 0

DaysIn(y, m) ==
  IF m = 2 THEN (IF IsLeap(y) THEN 29 ELSE 28)
  ELSE IF m \in {4, 6, 9, 11} THEN 30 ELSE 31

NextDay(d) ==
  IF d.day < DaysIn(d.year, d.month) THEN [d EXCEPT !.day = d.day + 1]
  ELSE IF d.month < 12 THEN [d EXCEPT !.month = d.month + 1, !.day = 1]
  ELSE [year |-> d.year + 1, month |-> 1, day |-> 1]

RECURSIVE DateAfter(_, _)
DateAfter(d, k) == IF k = 0 THEN d ELSE DateAfter(NextDay(d), k - 1)

RECURSIVE ZeroPad(_, _)
ZeroPad(chars, width) == IF Len(chars) >= width THEN chars ELSE ZeroPad(<<"0">> \o chars, width)

\* mutant: the month and the day not padded to two digits
strftime_Unpadded(d) ==
  NatToStr(d.year) \o <<"-">> \o NatToStr(d.month) \o <<"-">> \o NatToStr(d.day)

strftime(d) ==
  ZeroPad(NatToStr(d.year), 4) \o <<"-">> \o ZeroPad(NatToStr(d.month), 2)
    \o <<"-">> \o ZeroPad(NatToStr(d.day), 2)

datetime_now(clock) == DateAfter(ClockStart, clock)

(***************************************************************************)
(* format_threat_summary                                                   *)
(***************************************************************************)
\* mutant: the date argument overwritten with the clock's date in every call
EffectiveDate_AlwaysClock(date, clock) == PyStr(strftime(datetime_now(clock)))

\* if not date_str: date_str = datetime.now().strftime("%Y-%m-%d")
EffectiveDate(date, clock) ==
  IF ~Truthy(date) THEN PyStr(strftime(datetime_now(clock))) ELSE date

Header(date) == <<"U+1F534"," ","*","*","T","H","R","E","A","T"," ","I","N","T","E","L"," ","S","U","M","M","A","R","Y"," ","-"," ">> \o Format(date) \o <<"*","*","\n","\n">>

HotHeader == <<"U+1F525"," ","*","*","H","O","T"," ","T","H","R","E","A","T","S","*","*","\n">>

\* mutant: `if 'iocs' in threat`, the line put for an empty value too
IocsLine_WheneverPresent(threat) ==
  IF "iocs" \in DOMAIN threat
  THEN <<" "," "," ","U+26A1"," ","I","O","C","s",":"," ">> \o Format(threat["iocs"]) \o <<"\n">>
  ELSE <<>>

\* if threat.get('iocs'): output += IOCs line
IocsLine(threat) ==
  IF Truthy(get(threat, "iocs", PyNone))
  THEN <<" "," "," ","U+26A1"," ","I","O","C","s",":"," ">> \o Format(threat["iocs"]) \o <<"\n">>
  ELSE <<>>

\* the body of the loop over the threats
ThreatBlock(i, threat) ==
  <<"\n">> \o IntToStr(i) \o <<"."," ","*","*">> \o Format(get(threat, "name", PyStr(<<"U","n","k","n","o","w","n">>)))
    \o <<"*","*"," ","-"," ">> \o Format(get(threat, "severity", PyStr(<<"N","/","A">>))) \o <<"\n">>
    \o <<" "," "," ","U+1F4CC"," ","T","a","r","g","e","t",":"," ">> \o Format(get(threat, "target", PyStr(<<"N","/","A">>))) \o <<"\n">>
    \o <<" "," "," ","U+1F3AF"," ","V","e","c","t","o","r",":"," ">> \o Format(get(threat, "vector", PyStr(<<"N","/","A">>))) \o <<"\n">>
    \o IocsLine(threat)
    \o <<" "," "," ","U+1F517"," ","S","o","u","r","c","e",":"," ">> \o Format(get(threat, "url", PyStr(<<"N","/","A">>))) \o <<"\n">>

\* mutant: the slice forgotten, every threat rendered
ThreatSlice_NoLimit(items) == items

\* threats[:5]
ThreatSlice(items) == Take(items, ThreatLimit)

\* for i, threat in enumerate(threats[:5], 1)
RECURSIVE ThreatLoop(_, _, _)
ThreatLoop(output, items, i) ==
  IF items = <<>> THEN output
  ELSE ThreatLoop(output \o ThreatBlock(i, Head(items)), Tail(items), i + 1)

\* cve.get('desc', 'N/A')[:80]: a str is sliced; an int or None is not
\* subscriptable and the slice raises TypeError
DescSlice(desc) ==
  IF desc.t = "str" THEN Ok(Take(desc.s, DescLimit)) ELSE Raise("TypeError")

\* mutant: the ellipsis put only when the description was cut
CveLine_EllipsisIfCut(cve) ==
  LET desc == get(cve, "desc", PyStr(<<"N","/","A">>))
      d == DescSlice(desc)
  IN IF d.exc # "" THEN d
     ELSE Ok(<<"-"," ","*","*">> \o Format(get(cve, "id", PyStr(<<"N","/","A">>))) \o <<"*","*",":"," ">> \o d.out
               \o (IF Len(desc.s) > DescLimit THEN <<".",".",".">> ELSE <<>>)
               \o <<" ","(","C","V","S","S",":"," ">> \o Format(get(cve, "cvss", PyStr(<<"N","/","A">>))) \o <<")","\n">>)

\* the body of the loop over the CVEs
CveLine(cve) ==
  LET d == DescSlice(get(cve, "desc", PyStr(<<"N","/","A">>)))
  IN IF d.exc # "" THEN d
     ELSE Ok(<<"-"," ","*","*">> \o Format(get(cve, "id", PyStr(<<"N","/","A">>))) \o <<"*","*",":"," ">> \o d.out
               \o <<".",".","."," ","(","C","V","S","S",":"," ">> \o Format(get(cve, "cvss", PyStr(<<"N","/","A">>))) \o <<")","\n">>)

\* cves[:5]
CveSlice(items) == Take(items, CveLimit)

\* for cve in cves[:5]
RECURSIVE CveLoop(_, _)
CveLoop(output, items) ==
  IF items = <<>> THEN Ok(output)
  ELSE LET line == CveLine(Head(items))
       IN IF line.exc # "" THEN line ELSE CveLoop(output \o line.out, Tail(items))

CveHeader == <<"\n","U+1F195"," ","*","*","N","E","W"," ","C","V","E","s","*","*","\n">>

\* mutant: the section header put whether or not there are CVEs
CveSection_HeaderAlways(output, cvelist) ==
  CveLoop(output \o CveHeader, IF cvelist.t = "list" THEN CveSlice(cvelist.s) ELSE <<>>)

\* if cves: header and lines
CveSection(output, cvelist) ==
  IF Truthy(cvelist) THEN CveLoop(output \o CveHeader, CveSlice(cvelist.s)) ELSE Ok(output)

Closing == <<"\n","U+1F4A1"," ","*","S","t","a","y"," ","s","a","f","e",","," ","u","p","d","a","t","e"," ","y","o","u","r"," ","s","y","s","t","e","m","s","!","*"," ","U+1F6E1","U+FE0F">>

\* mutant: the CVE section put before the threat blocks
format_threat_summary_CvesFirst(threatlist, cvelist, date, clock) ==
  LET output1 == Header(EffectiveDate(date, clock)) \o HotHeader
      output2 == CveSection(output1, cvelist)
  IN IF output2.exc # "" THEN output2
     ELSE Ok(ThreatLoop(output2.out, ThreatSlice(threatlist), 1) \o Closing)

format_threat_summary(threatlist, cvelist, date, clock) ==
  LET output1 == Header(EffectiveDate(date, clock)) \o HotHeader
      output2 == ThreatLoop(output1, ThreatSlice(threatlist), 1)
      output3 == CveSection(output2, cvelist)
  IN IF output3.exc # "" THEN output3 ELSE Ok(output3.out \o Closing)

(***************************************************************************)
(* main                                                                    *)
(***************************************************************************)
sample_threats ==
  << [name |-> PyStr(<<"E","x","a","m","p","l","e"," ","M","a","l","w","a","r","e">>), severity |-> PyStr(<<"H","i","g","h">>),
      target |-> PyStr(<<"F","i","n","a","n","c","i","a","l"," ","S","e","c","t","o","r">>), vector |-> PyStr(<<"P","h","i","s","h","i","n","g">>),
      iocs |-> PyStr(<<"e","x","a","m","p","l","e",".","c","o","m",","," ","1","9","2",".","1","6","8",".","1",".","1">>),
      url |-> PyStr(<<"h","t","t","p","s",":","/","/","e","x","a","m","p","l","e",".","c","o","m","/","t","h","r","e","a","t">>)] >>

sample_cves ==
  << [id |-> PyStr(<<"C","V","E","-","2","0","2","5","-","1","2","3","4">>),
      desc |-> PyStr(<<"R","e","m","o","t","e"," ","c","o","d","e"," ","e","x","e","c","u","t","i","o","n"," ","v","u","l","n","e","r","a","b","i","l","i","t","y"," ","i","n"," ","e","x","a","m","p","l","e"," ","s","o","f","t","w","a","r","e">>),
      cvss |-> PyStr(<<"9",".","8">>)] >>

Usage ==
  <<"U","s","a","g","e",":"," ","p","y","t","h","o","n"," ","f","e","t","c","h","_","t","h","r","e","a","t","_","i","n","t","e","l",".","p","y"," ","-","-","s","a","m","p","l","e","\n">>
    \o <<"T","h","i","s"," ","i","s"," ","a"," ","t","e","m","p","l","a","t","e"," ","s","c","r","i","p","t","."," ","T","h","e"," ","a","g","e","n","t"," ","u","s","e","s"," ","w","e","b","_","s","e","a","r","c","h","/","w","e","b","_","f","e","t","c","h"," ","d","i","r","e","c","t","l","y",".","\n">>

\* mutant: `"--sample" in sys.argv[1:]`, the flag taken at any position
IsSample_AnyPosition(args) == \E i \in 2..Len(args) : args[i] = "--sample"

\* sys.argv[1] is args[2]: TLA+ sequences start at 1
IsSample(args) == Len(args) > 1 /\ args[2] = "--sample"

\* what the process prints and its exit status
main(args, clock) ==
  IF IsSample(args)
  THEN LET r == format_threat_summary(sample_threats, PyList(sample_cves), PyNone, clock)
       IN IF r.exc # "" THEN [stdout |-> <<>>, status |-> 1]
          ELSE [stdout |-> r.out \o <<"\n">>, status |-> 0]
  ELSE [stdout |-> Usage, status |-> 0]

(***************************************************************************)
(* Inputs.                                                                 *)
(***************************************************************************)
\* a description of the given length whose characters tell their position
DescOfLen(len) == [i \in 1..len |-> Digit((i * i) % 10)]

ThreatPool ==
  << sample_threats[1],
     [name |-> PyStr(<<"X">>)],
     EmptyDict,
     [name |-> PyStr(<<"N","E","W"," ","C","V","E","s">>), severity |-> PyInt(7), iocs |-> PyStr(<<>>)],
     [target |-> PyStr(<<"s","e","e"," ","U+26A1"," ","I","O","C","s",":"," ","n","o","n","e">>), iocs |-> PyNone, url |-> PyNone],
     [name |-> PyStr(<<>>), severity |-> PyNone, vector |-> PyInt(12), iocs |-> PyInt(0)],
     [name |-> PyStr(<<"B">>), target |-> PyStr(<<>>), iocs |-> PyInt(5), url |-> PyStr(<<"u">>)],
     [name |-> PyStr(<<"C">>), iocs |-> PyStr(<<"a",".","b","\n"," "," "," ","U+26A1"," ","I","O","C","s",":"," ","c",".","d">>)] >>

CvePool ==
  << sample_cves[1],
     EmptyDict,
     [id |-> PyStr(<<"C","V","E","-","A">>), desc |-> PyStr(DescOfLen(DescLimit))],
     [desc |-> PyStr(DescOfLen(DescLimit + 1)), cvss |-> PyInt(7)],
     [id |-> PyStr(<<"C","V","E","-","B">>), desc |-> PyStr(<<>>), cvss |-> PyNone],
     [id |-> PyInt(12), desc |-> PyStr(DescOfLen(DescLimit - 1)), cvss |-> PyStr(<<"5",".","0">>)],
     [id |-> PyStr(<<"C","V","E","-","C">>), desc |-> PyStr(DescOfLen(DescLimit + 15)), cvss |-> PyStr(<<"1">>)],
     [id |-> PyStr(<<"C","V","E","-","D">>), desc |-> PyNone],
     [desc |-> PyInt(42), cvss |-> PyStr(<<"2">>)] >>

\* len records of the pool, taken in its order from start on, wrapping round
Rotation(pool, start, len) == [i \in 1..len |-> pool[((start + i - 2) % Len(pool)) + 1]]

\* where the rotations start: such that every record of a pool comes among the
\* first five of some input, and a CVE without a str description comes within the
\* first five of one input and only after them in another
ThreatStarts == {1, 2, 5}
CveStarts == {1, 3, 6, 8}

ThreatInputs == { Rotation(ThreatPool, s, k) : s \in ThreatStarts, k \in 0..MaxThreats }

CveInputs ==
  {PyNone} \cup { PyList(Rotation(CvePool, s, k)) : s \in CveStarts, k \in 0..MaxCves }

DateInputs == { PyNone, PyStr(<<>>), PyStr(<<"2","0","2","5","-","0","1","-","0","1">>) }

ArgWords == { "--sample", "--Sample", "-s", "sample", "", "--help" }

RECURSIVE ArgLists(_)
ArgLists(k) ==
  IF k = 0 THEN { <<>> }
  ELSE ArgLists(k - 1) \cup { Append(a, w) : a \in ArgLists(k - 1), w \in ArgWords }

ArgvInputs == { <<"fetch_threat_intel.py">> \o a : a \in ArgLists(MaxArgs) }

\* the value of result before any call
NoResult == Raise("not called")

(***************************************************************************)
(* The formatter called by a client: Spec.                                 *)
(***************************************************************************)
Init ==
  /\ threats \in ThreatInputs
  /\ cves \in CveInputs
  /\ date_str \in DateInputs
  /\ now = 0
  /\ pc = "idle"
  /\ result = NoResult
  /\ calls = <<>>
  /\ argv = <<>>
  /\ stdout = <<>>
  /\ status = 0

\* a call of format_threat_summary(threats, cves, date_str); calls keeps, for each
\* call made so far, the clock it read and what it returned
Call ==
  /\ pc \in {"idle", "returned"}
  /\ Len(calls) < MaxCalls
  /\ result' = format_threat_summary(threats, cves, date_str, now)
  /\ calls' = Append(calls, [at |-> now, ret |-> result'])
  /\ pc' = "returned"
  /\ UNCHANGED <<threats, cves, date_str, now, argv, stdout, status>>

\* the wall clock passes midnight
Tick ==
  /\ now < MaxTicks
  /\ now' = now + 1
  /\ UNCHANGED <<threats, cves, date_str, pc, result, calls, argv, stdout, status>>

Next == Call \/ Tick

Spec == Init /\ [][Next]_vars

(***************************************************************************)
(* The script run from a command line: SpecMain.                           *)
(***************************************************************************)
InitMain ==
  /\ threats = <<>>
  /\ cves = PyNone
  /\ date_str = PyNone
  /\ now = 0
  /\ pc = "start"
  /\ result = NoResult
  /\ calls = <<>>
  /\ argv \in ArgvInputs
  /\ stdout = <<>>
  /\ status = 0

\* python fetch_threat_intel.py <args>
Main ==
  /\ pc = "start"
  /\ stdout' = main(argv, now).stdout
  /\ status' = main(argv, now).status
  /\ pc' = "exited"
  /\ UNCHANGED <<threats, cves, date_str, now, result, calls, argv>>

TickMain ==
  /\ now < MaxTicks
  /\ pc = "start"
  /\ now' = now + 1
  /\ UNCHANGED <<threats, cves, date_str, pc, result, calls, argv, stdout, status>>

NextMain == Main \/ TickMain

SpecMain == InitMain /\ [][NextMain]_vars

(***************************************************************************)
(* Properties.  Returned is the state after a call that returned a string; *)
(* Out is that string and CalledAt the clock the call read.                *)
(***************************************************************************)
Returned == pc = "returned" /\ result.exc = ""
Out == result.out
CalledAt == calls[Len(calls)].at

IsPrefix(pat, text) == Len(pat) <= Len(text) /\ SubSeq(text, 1, Len(pat)) = pat
IsSuffix(pat, text) ==
  Len(pat) <= Len(text) /\ SubSeq(text, Len(text) - Len(pat) + 1, Len(text)) = pat
Contains(text, pat) ==
  \E i \in 1..(Len(text) - Len(pat) + 1) : SubSeq(text, i, i + Len(pat) - 1) = pat

RECURSIVE Flatten(_)
Flatten(texts) == IF texts = <<>> THEN <<>> ELSE Head(texts) \o Flatten(Tail(texts))

\* the values a dict holds, as the texts they are rendered to
RenderedValues(d) == { Format(d[k]) : k \in DOMAIN d }

\* the records that are among the first five of a sequence
FirstFive(items) == SubSeq(items, 1, Min(5, Len(items)))

CveItems == IF cves.t = "list" THEN cves.s ELSE <<>>

\* C1: format_threat_summary never raises: whatever the records hold (a str, a
\* number, an empty value or None under any field), the call returns a string.
C1_NeverRaises == pc = "returned" => result.exc = ""

\* C2: the output renders exactly the first min(5, len(threats)) threat records, in
\* input order and numbered 1..min(5, len(threats)): between the two section
\* headers' text that an empty threats list gives, it holds their blocks and
\* nothing of a record at position 6 or later.
C2_FirstFiveThreats ==
  Returned =>
    LET bare == format_threat_summary(<<>>, cves, date_str, CalledAt).out
        head == Len(Header(EffectiveDate(date_str, CalledAt))) + Len(HotHeader)
        k == Min(5, Len(threats))
    IN Out = SubSeq(bare, 1, head)
               \o Flatten([i \in 1..k |-> ThreatBlock(i, threats[i])])
               \o SubSeq(bare, head + 1, Len(bare))

C2_Witness ==
  /\ Returned
  /\ Len(threats) > 5
  /\ threats[6] # threats[5]
  /\ cves.t = "list" /\ Len(cves.s) > 0


\* the texts that the rendered threat records and the date argument bring along
SuppliedTexts ==
  UNION { RenderedValues(FirstFive(threats)[i]) : i \in 1..Len(FirstFive(threats)) }
    \cup (IF date_str = PyNone THEN {} ELSE {Format(date_str)})

NewCves == <<"N","E","W"," ","C","V","E","s">>

\* the CVE records are rendered as the section header followed by the lines of the
\* first five of them, in input order, after everything else and before the closing
OnlyFirstFiveCves ==
  LET bare == format_threat_summary(threats, PyList(<<>>), date_str, CalledAt).out
      k == Min(5, Len(CveItems))
  IN Truthy(cves) =>
       Out = SubSeq(bare, 1, Len(bare) - Len(Closing)) \o CveHeader
               \o Flatten([i \in 1..k |-> CveLine(CveItems[i]).out]) \o Closing

\* C3 as stated: only the first 5 CVE records are rendered, in input order, and
\* when cves is empty or absent the text "NEW CVEs" is nowhere in the output,
\* whatever the threats and the date.
C3_NoCveTextAnywhere ==
  Returned => (OnlyFirstFiveCves /\ (~Truthy(cves) => ~Contains(Out, NewCves)))

\* C3, amended: only the first 5 CVE records are rendered, in input order, and
\* when cves is empty or absent the output holds the text "NEW CVEs" only if a
\* rendered threat field or the supplied date holds it: no section header is put.
C3_NoCveSectionWhenEmpty ==
  Returned =>
    /\ OnlyFirstFiveCves
    /\ (~Truthy(cves) /\ \A v \in SuppliedTexts : ~Contains(v, NewCves))
         => ~Contains(Out, NewCves)

C3_Witness ==
  /\ Returned
  /\ ~Truthy(cves)
  /\ Len(threats) > 1
  /\ date_str.s # <<>>
  /\ \A v \in SuppliedTexts : ~Contains(v, NewCves)

\* a date argument that is a non-empty string
NonEmptyDate == date_str.t = "str" /\ date_str.s # <<>>

\* C4 as stated: two calls with the same threats, cves and supplied date return
\* the same, whatever the clock reads at each; the clock can change the output
\* only when no date argument is supplied.
C4_ClockOnlyWhenDateAbsent ==
  \A i, j \in DOMAIN calls : date_str # PyNone => calls[i].ret = calls[j].ret

\* C4, amended: two calls with the same threats, cves and the same non-empty
\* date argument return the same, whatever the clock reads at each; the clock can
\* change the output only when the date argument is absent or empty.
C4_ClockOnlyWhenDateAbsentOrEmpty ==
  \A i, j \in DOMAIN calls : calls[i].ret # calls[j].ret => ~NonEmptyDate

C4_Witness ==
  /\ NonEmptyDate
  /\ Len(calls) = 2
  /\ calls[1].at # calls[2].at
  /\ calls[1].ret.exc = ""
  /\ Len(threats) > 0

RECURSIVE SumLen(_)
SumLen(texts) == IF texts = <<>> THEN 0 ELSE Len(Head(texts)) + SumLen(Tail(texts))

\* the part of the output that is the block of the i-th threat record
BlockAt(i) ==
  LET before == Len(Header(EffectiveDate(date_str, CalledAt))) + Len(HotHeader)
                  + SumLen([j \in 1..(i - 1) |-> ThreatBlock(j, threats[j])])
  IN SubSeq(Out, before + 1, before + Len(ThreatBlock(i, threats[i])))

\* the lines of a text
RECURSIVE Lines(_)
Lines(text) ==
  IF \A i \in DOMAIN text : text[i] # "\n" THEN <<text>>
  ELSE LET brk == CHOOSE i \in DOMAIN text :
                    text[i] = "\n" /\ \A j \in 1..(i - 1) : text[j] # "\n"
       IN <<SubSeq(text, 1, brk - 1)>> \o Lines(SubSeq(text, brk + 1, Len(text)))

IocsMarker == <<"U+26A1"," ","I","O","C","s",":">>

MarkerLines(text) == { j \in DOMAIN Lines(text) : Contains(Lines(text)[j], IocsMarker) }

\* iocs absent or empty (None, "" and 0 are the empty values)
IocsEmpty(threat) == "iocs" \notin DOMAIN threat \/ ~Truthy(threat["iocs"])

\* no IOCs line for an empty iocs, exactly one, holding the value, otherwise
IocsLineRule(i) ==
  IF IocsEmpty(threats[i]) THEN MarkerLines(BlockAt(i)) = {}
  ELSE /\ Cardinality(MarkerLines(BlockAt(i))) = 1
       /\ \A j \in MarkerLines(BlockAt(i)) :
            Contains(Lines(BlockAt(i))[j], Format(threats[i]["iocs"]))

\* the record's values hold no line break, and none but iocs the IOCs marker
PlainValues(threat) ==
  /\ \A k \in DOMAIN threat : ~Contains(Format(threat[k]), <<"\n">>)
  /\ \A k \in DOMAIN threat \ {"iocs"} : ~Contains(Format(threat[k]), IocsMarker)

\* C5 as stated: a rendered threat whose iocs is absent or empty has no line with
\* the IOCs marker in its block; one whose iocs is present and non-empty has
\* exactly one such line, and it holds the iocs value.
C5_IocsLine ==
  Returned => \A i \in 1..Min(5, Len(threats)) : IocsLineRule(i)

\* C5, amended: the same, for the rendered threats none of whose field values
\* holds a line break and none of whose other fields holds the IOCs marker.
C5_IocsLineOfPlainValues ==
  Returned => \A i \in 1..Min(5, Len(threats)) : PlainValues(threats[i]) => IocsLineRule(i)

C5_Witness ==
  /\ Returned
  /\ Len(threats) > 2
  /\ PlainValues(threats[3]) /\ ~IocsEmpty(threats[3])
  /\ PlainValues(threats[2]) /\ "iocs" \in DOMAIN threats[2] /\ IocsEmpty(threats[2])

\* the text of a field: its value if the record holds it, the placeholder if not
FieldText(d, key, placeholder) == IF key \in DOMAIN d THEN Format(d[key]) ELSE placeholder

Numeral(i) == <<"1", "2", "3", "4", "5">>[i]

NameLine(i, threat) ==
  <<"\n">> \o <<Numeral(i)>> \o <<"."," ","*","*">> \o FieldText(threat, "name", <<"U","n","k","n","o","w","n">>)
    \o <<"*","*"," ","-"," ">> \o FieldText(threat, "severity", <<"N","/","A">>) \o <<"\n">>
TargetLine(threat) == <<" "," "," ","U+1F4CC"," ","T","a","r","g","e","t",":"," ">> \o FieldText(threat, "target", <<"N","/","A">>) \o <<"\n">>
VectorLine(threat) == <<" "," "," ","U+1F3AF"," ","V","e","c","t","o","r",":"," ">> \o FieldText(threat, "vector", <<"N","/","A">>) \o <<"\n">>
SourceLine(threat) == <<" "," "," ","U+1F517"," ","S","o","u","r","c","e",":"," ">> \o FieldText(threat, "url", <<"N","/","A">>) \o <<"\n">>

OnlyNameX ==
  /\ threats = <<[name |-> PyStr(<<"X">>)]>>
  /\ cves = PyList(<<>>)
  /\ date_str = PyStr(<<"2","0","2","5","-","0","1","-","0","1">>)

\* C6: in the block of each rendered threat a missing name reads "Unknown", a
\* missing severity, target, vector or url reads "N/A", each in its own place,
\* and a present field reads its value; format_summary([{"name":"X"}], [],
\* "2025-01-01") gives "1. **X** - N/A", N/A for target, vector and source, and
\* no IOCs line.
C6_Placeholders ==
  Returned =>
    /\ \A i \in 1..Min(5, Len(threats)) :
         /\ IsPrefix(NameLine(i, threats[i]) \o TargetLine(threats[i])
                       \o VectorLine(threats[i]), BlockAt(i))
         /\ IsSuffix(SourceLine(threats[i]), BlockAt(i))
    /\ OnlyNameX =>
         Out = <<"U+1F534"," ","*","*","T","H","R","E","A","T"," ","I","N","T","E","L"," ","S","U","M","M","A","R","Y"," ","-"," ","2","0","2","5","-","0","1","-","0","1","*","*","\n","\n","U+1F525"," ","*","*","H","O","T"," ","T","H","R","E","A","T","S","*","*","\n">>
                 \o <<"\n","1","."," ","*","*","X","*","*"," ","-"," ","N","/","A","\n"," "," "," ","U+1F4CC"," ","T","a","r","g","e","t",":"," ","N","/","A","\n"," "," "," ","U+1F3AF"," ","V","e","c","t","o","r",":"," ","N","/","A","\n">>
                 \o <<" "," "," ","U+1F517"," ","S","o","u","r","c","e",":"," ","N","/","A","\n","\n","U+1F4A1"," ","*","S","t","a","y"," ","s","a","f","e",","," ","u","p","d","a","t","e"," ","y","o","u","r"," ","s","y","s","t","e","m","s","!","*"," ","U+1F6E1","U+FE0F">>

C6_Witness == Returned /\ OnlyNameX

\* the part of the output that is the line of the i-th CVE record
CveLineAt(i) ==
  LET k == Min(5, Len(CveItems))
      after == Len(Closing) + SumLen([j \in 1..(k - i) |-> CveLine(CveItems[i + j]).out])
  IN SubSeq(Out, Len(Out) - after - Len(CveLine(CveItems[i]).out) + 1, Len(Out) - after)

HasDescription(cve) == "desc" \in DOMAIN cve /\ cve["desc"].t = "str"

\* C7: the line of each rendered CVE record with a description of length L shows
\* exactly its first min(80, L) characters and then "...", for every L (below 80
\* and 0 too), with the id and the cvss, each "N/A" when missing.
C7_DescriptionCut ==
  Returned =>
    \A i \in 1..Min(5, Len(CveItems)) :
      HasDescription(CveItems[i]) =>
        LET desc == CveItems[i]["desc"].s
        IN CveLineAt(i) =
             <<"-"," ","*","*">> \o FieldText(CveItems[i], "id", <<"N","/","A">>) \o <<"*","*",":"," ">>
               \o SubSeq(desc, 1, Min(80, Len(desc))) \o <<".",".",".">>
               \o <<" ","(","C","V","S","S",":"," ">> \o FieldText(CveItems[i], "cvss", <<"N","/","A">>) \o <<")","\n">>

C7_Witness ==
  /\ Returned
  /\ Len(CveItems) >= 5
  /\ \E i, j, k \in 1..5 :
       /\ HasDescription(CveItems[i]) /\ Len(CveItems[i]["desc"].s) > 80
       /\ HasDescription(CveItems[j]) /\ Len(CveItems[j]["desc"].s) = 0
       /\ HasDescription(CveItems[k]) /\ Len(CveItems[k]["desc"].s) = 80

\* the local date the clock shows at the call, as YYYY-MM-DD
TodayAt(clock) ==
  LET d == datetime_now(clock)
  IN << Digit(d.year \div 1000), Digit((d.year \div 100) % 10),
        Digit((d.year \div 10) % 10), Digit(d.year % 10), "-",
        Digit(d.month \div 10), Digit(d.month % 10), "-",
        Digit(d.day \div 10), Digit(d.day % 10) >>

HeaderWith(date) == IsPrefix(<<"U+1F534"," ","*","*","T","H","R","E","A","T"," ","I","N","T","E","L"," ","S","U","M","M","A","R","Y"," ","-"," ">> \o date \o <<"*","*","\n","\n">>, Out)

\* C8 as stated: the header date is the date argument whenever one is supplied,
\* and the current local date at the call, as YYYY-MM-DD, when it is absent.
C8_HeaderDate ==
  Returned =>
    IF date_str # PyNone THEN HeaderWith(Format(date_str)) ELSE HeaderWith(TodayAt(CalledAt))

\* C8, amended: the header date is the date argument whenever a non-empty one is
\* supplied, and the current local date at the call, as YYYY-MM-DD, when the
\* date argument is absent or empty.
C8_HeaderDateNonEmpty ==
  Returned =>
    IF NonEmptyDate THEN HeaderWith(date_str.s) ELSE HeaderWith(TodayAt(CalledAt))

C8_Witness == Returned /\ date_str = PyStr(<<>>) /\ CalledAt = 1 /\ now = 1

ThreatLines(i, threat) ==
  NameLine(i, threat) \o TargetLine(threat) \o VectorLine(threat)
    \o (IF IocsEmpty(threat) THEN <<>>
        ELSE <<" "," "," ","U+26A1"," ","I","O","C","s",":"," ">> \o Format(threat["iocs"]) \o <<"\n">>)
    \o SourceLine(threat)

HeaderLines ==
  <<"U+1F534"," ","*","*","T","H","R","E","A","T"," ","I","N","T","E","L"," ","S","U","M","M","A","R","Y"," ","-"," ">>
    \o (IF NonEmptyDate THEN date_str.s ELSE TodayAt(CalledAt)) \o <<"*","*","\n">>
    \o <<"\n">>
    \o <<"U+1F525"," ","*","*","H","O","T"," ","T","H","R","E","A","T","S","*","*","\n">>

ClosingLine == <<"\n","U+1F4A1"," ","*","S","t","a","y"," ","s","a","f","e",","," ","u","p","d","a","t","e"," ","y","o","u","r"," ","s","y","s","t","e","m","s","!","*"," ","U+1F6E1","U+FE0F">>

\* C10: the output is, in this order: the header line with the date, a blank
\* line, the HOT THREATS header, the threat blocks (name/severity, target, vector,
\* the IOCs line if any, source), the NEW CVEs section only if cves is non-empty,
\* and the closing line last; with no threats and no cves it is the header, the
\* HOT THREATS header and the closing line.
C10_TemplateOrder ==
  Returned =>
    /\ Out = HeaderLines
               \o Flatten([i \in 1..Min(5, Len(threats)) |-> ThreatLines(i, threats[i])])
               \o (IF CveItems = <<>> THEN <<>>
                   ELSE <<"\n","U+1F195"," ","*","*","N","E","W"," ","C","V","E","s","*","*","\n">>
                          \o Flatten([i \in 1..Min(5, Len(CveItems)) |->
                                        CveLine(CveItems[i]).out]))
               \o ClosingLine
    /\ (threats = <<>> /\ CveItems = <<>>) => Out = HeaderLines \o ClosingLine

C10_Witness ==
  /\ Returned
  /\ Len(threats) >= 2 /\ ~IocsEmpty(threats[1]) /\ IocsEmpty(threats[2])
  /\ Len(CveItems) >= 2

\* the run was given --sample as its first argument
SampleAsked == Len(argv) >= 2 /\ argv[2] = "--sample"

SampleSummary(clock) ==
  <<"U+1F534"," ","*","*","T","H","R","E","A","T"," ","I","N","T","E","L"," ","S","U","M","M","A","R","Y"," ","-"," ">> \o TodayAt(clock) \o <<"*","*","\n","\n","U+1F525"," ","*","*","H","O","T"," ","T","H","R","E","A","T","S","*","*","\n">>
    \o <<"\n","1","."," ","*","*","E","x","a","m","p","l","e"," ","M","a","l","w","a","r","e","*","*"," ","-"," ","H","i","g","h","\n"," "," "," ","U+1F4CC"," ","T","a","r","g","e","t",":"," ","F","i","n","a","n","c","i","a","l"," ","S","e","c","t","o","r","\n">>
    \o <<" "," "," ","U+1F3AF"," ","V","e","c","t","o","r",":"," ","P","h","i","s","h","i","n","g","\n"," "," "," ","U+26A1"," ","I","O","C","s",":"," ","e","x","a","m","p","l","e",".","c","o","m",","," ","1","9","2",".","1","6","8",".","1",".","1","\n">>
    \o <<" "," "," ","U+1F517"," ","S","o","u","r","c","e",":"," ","h","t","t","p","s",":","/","/","e","x","a","m","p","l","e",".","c","o","m","/","t","h","r","e","a","t","\n","\n","U+1F195"," ","*","*","N","E","W"," ","C","V","E","s","*","*","\n">>
    \o <<"-"," ","*","*","C","V","E","-","2","0","2","5","-","1","2","3","4","*","*",":"," ","R","e","m","o","t","e"," ","c","o","d","e"," ","e","x","e","c","u","t","i","o","n"," ","v","u","l","n","e","r","a","b","i","l","i","t","y"," ","i","n"," ","e","x","a","m","p","l","e"," ","s","o","f","t","w","a","r","e",".",".",".">>
    \o <<" ","(","C","V","S","S",":"," ","9",".","8",")","\n","\n","U+1F4A1"," ","*","S","t","a","y"," ","s","a","f","e",","," ","u","p","d","a","t","e"," ","y","o","u","r"," ","s","y","s","t","e","m","s","!","*"," ","U+1F6E1","U+FE0F","\n">>

UsageLines ==
  <<"U","s","a","g","e",":"," ","p","y","t","h","o","n"," ","f","e","t","c","h","_","t","h","r","e","a","t","_","i","n","t","e","l",".","p","y"," ","-","-","s","a","m","p","l","e","\n">>
    \o <<"T","h","i","s"," ","i","s"," ","a"," ","t","e","m","p","l","a","t","e"," ","s","c","r","i","p","t","."," ","T","h","e"," ","a","g","e","n","t"," ","u","s","e","s"," ","w","e","b","_","s","e","a","r","c","h","/","w","e","b","_","f","e","t","c","h"," ","d","i","r","e","c","t","l","y",".","\n">>

\* C9: a run ends in success either way: given --sample (as its first argument)
\* it prints the summary of the two sample records, with "Example Malware",
\* "CVE-2025-1234" and the closing line; given no argument or any other one it
\* prints exactly the two usage lines and formats nothing.
C9_TwoOutcomes ==
  pc = "exited" =>
    /\ status = 0
    /\ IF SampleAsked
       THEN /\ stdout = SampleSummary(now)
            /\ Contains(stdout, <<"E","x","a","m","p","l","e"," ","M","a","l","w","a","r","e">>)
            /\ Contains(stdout, <<"C","V","E","-","2","0","2","5","-","1","2","3","4">>)
            /\ Contains(stdout, ClosingLine)
       ELSE /\ stdout = UsageLines
            /\ ~Contains(stdout, <<"T","H","R","E","A","T"," ","I","N","T","E","L"," ","S","U","M","M","A","R","Y">>)

C9_Witness ==
  /\ pc = "exited"
  /\ now = 1
  /\ Len(argv) = 3
  /\ argv[2] = "--sample"
  /\ stdout # UsageLines
====
